---- MODULE Spec2Model ----
(***************************************************************************)
(* Model of shawnaiutils.callbacks.standard_callbacks.                     *)
(*                                                                         *)
(* Text is modelled as a sequence of one-character strings so that         *)
(* formatting, lower-casing, substring search and path joining are         *)
(* computed character by character, as the Python library computes them.   *)
(* The filesystem is the set of directories that exist, each named by its  *)
(* resolved path.  A call is a process that walks through the function     *)
(* body; os.makedirs is unfolded into its existence checks and mkdir       *)
(* system calls so that two calls can interleave inside it.                *)
(***************************************************************************)
EXTENDS Integers, Sequences, FiniteSets, TLC

VARIABLES now, fs, pc, args, timestamp, run_dir, stack, phase, made, err,
          result, out

vars == <<now, fs, pc, args, timestamp, run_dir, stack, phase, made, err,
          result, out>>

(***************************************************************************)
(* Bounds of the model.                                                    *)
(***************************************************************************)
\* longest run_name drawn, in characters
MaxNameLen == 1
\* seconds the wall clock may advance during a behaviour
MaxTicks == 1
\* largest explicit patience argument drawn (the default is drawn as well)
MaxPatience == 3

(***************************************************************************)
(* Text.                                                                   *)
(***************************************************************************)
EMPTY == << >>
SLASH == "/"

UpperCase == <<"A","B","C","D","E","F","G","H","I","J","K","L","M",
               "N","O","P","Q","R","S","T","U","V","W","X","Y","Z">>
LowerCase == <<"a","b","c","d","e","f","g","h","i","j","k","l","m",
               "n","o","p","q","r","s","t","u","v","w","x","y","z">>

\* str.lower() on one character: only A..Z change
LowerChar(c) ==
    IF \E i \in 1..Len(UpperCase) : UpperCase[i] = c
    THEN LowerCase[CHOOSE i \in 1..Len(UpperCase) : UpperCase[i] = c]
    ELSE c

\* monitor.lower()
Lower(s) == [i \in 1..Len(s) |-> LowerChar(s[i])]

\* k in s, for strings: scan the start positions from the left
RECURSIVE FindFrom(_, _, _)
FindFrom(k, s, i) ==
    IF i + Len(k) - 1 > Len(s) THEN FALSE
    ELSE IF SubSeq(s, i, i + Len(k) - 1) = k THEN TRUE
    ELSE FindFrom(k, s, i + 1)

Contains(k, s) == FindFrom(k, s, 1)

StartsWith(s, c) == Len(s) > 0 /\ s[1] = c
EndsWith(s, c) == Len(s) > 0 /\ s[Len(s)] = c

(***************************************************************************)
(* Wall clock and datetime.now().strftime('%Y%m%d_%H%M%S').                *)
(* The clock counts seconds from the first instant of Epoch's day.         *)
(***************************************************************************)
Epoch == [year |-> 2024, month |-> 1, day |-> 1]
StartTime == 23 * 3600 + 59 * 60 + 59

Digits == <<"0","1","2","3","4","5","6","7","8","9">>

\* n in decimal, zero-padded to w digits
RECURSIVE Pad(_, _)
Pad(n, w) ==
    IF w = 0 THEN EMPTY
    ELSE Pad(n \div 10, w - 1) \o <<Digits[(n % 10) + 1]>>

Strftime(t) ==
    LET secs == t % 86400
        day  == Epoch.day + (t \div 86400)
    IN  Pad(Epoch.year, 4) \o Pad(Epoch.month, 2) \o Pad(day, 2) \o <<"_">>
        \o Pad(secs \div 3600, 2) \o Pad((secs % 3600) \div 60, 2)
        \o Pad(secs % 60, 2)

(***************************************************************************)
(* String constants of the function body.                                  *)
(***************************************************************************)
RUNS == <<"r","u","n","s">>
CHECKPOINTS == <<"c","h","e","c","k","p","o","i","n","t","s">>
LOGS == <<"l","o","g","s">>
BEST_MODEL == <<"b","e","s","t","_","m","o","d","e","l",".","k","e","r","a","s">>
TRAINING_LOG_SUFFIX == <<"_","t","r","a","i","n","i","n","g","_","l","o","g",".","c","s","v">>
KW_ACC == <<"a","c","c">>
KW_AUC == <<"a","u","c">>
KW_PRECISION == <<"p","r","e","c","i","s","i","o","n">>
KW_RECALL == <<"r","e","c","a","l","l">>
Keywords == <<KW_ACC, KW_AUC, KW_PRECISION, KW_RECALL>>

DefaultRunName == <<"d","e","f","a","u","l","t","_","r","u","n">>
DefaultMonitor == <<"v","a","l","_","l","o","s","s">>
DefaultPatience == 7
ReduceLRPatience == 3

(***************************************************************************)
(* Arguments drawn by the callers.                                         *)
(***************************************************************************)
NameChars == {"a", SLASH}
RunNames ==
    UNION {[1..k -> NameChars] : k \in 0..MaxNameLen} \cup {DefaultRunName}

Monitors ==
    { DefaultMonitor, EMPTY, <<"l","o","s","s">>, <<"v","a","l","_","a","c","c","u","r","a","c","y">>, <<"A","U","C","_","s","c","o","r","e">>,
      <<"P","r","e","c","i","s","i","o","n">>, <<"v","a","l","_","R","e","C","a","l","l">>, <<"a","c","_","c">>, <<"r","e","c","a","l">>, <<"a">> }

Patiences == (0..MaxPatience) \cup {DefaultPatience}

\* a run_name usable as one path segment once the timestamp is appended
ValidRunName(n) == \A i \in 1..Len(n) : n[i] # SLASH

(***************************************************************************)
(* posixpath.                                                              *)
(***************************************************************************)
\* os.path.join(a, b)
PathJoin(a, b) ==
    IF StartsWith(b, SLASH) THEN b
    ELSE IF a = EMPTY \/ EndsWith(a, SLASH) THEN a \o b
    ELSE a \o <<SLASH>> \o b

\* str.rfind('/') + 1: the length of the longest prefix ending in a slash
RECURSIVE RFindSlash(_, _)
RFindSlash(s, i) ==
    IF i = 0 THEN 0
    ELSE IF s[i] = SLASH THEN i
    ELSE RFindSlash(s, i - 1)

RECURSIVE RStripSlash(_)
RStripSlash(s) ==
    IF EndsWith(s, SLASH) THEN RStripSlash(SubSeq(s, 1, Len(s) - 1)) ELSE s

AllSlashes(s) == \A i \in 1..Len(s) : s[i] = SLASH

\* os.path.split(p)
PathSplit(p) ==
    LET i    == RFindSlash(p, Len(p))
        head == SubSeq(p, 1, i)
        tail == SubSeq(p, i + 1, Len(p))
    IN  [head |-> IF head # EMPTY /\ ~AllSlashes(head)
                  THEN RStripSlash(head) ELSE head,
         tail |-> tail]

(***************************************************************************)
(* The filesystem: the set of existing directories, by resolved path.      *)
(* Resolution drops repeated and trailing separators; the root and the     *)
(* working directory always exist.                                         *)
(***************************************************************************)
RECURSIVE Collapse(_)
Collapse(s) ==
    IF Len(s) <= 1 THEN s
    ELSE IF s[1] = SLASH /\ s[2] = SLASH THEN Collapse(Tail(s))
    ELSE <<s[1]>> \o Collapse(Tail(s))

\* a path without repeated or trailing separators resolves to itself
Canonical(p) ==
    /\ \A i \in 1..(Len(p) - 1) : ~(p[i] = SLASH /\ p[i + 1] = SLASH)
    /\ ~(Len(p) > 1 /\ EndsWith(p, SLASH))

Resolve(p) ==
    IF Canonical(p) THEN p
    ELSE LET c == Collapse(p)
         IN  IF Len(c) > 1 /\ EndsWith(c, SLASH)
             THEN SubSeq(c, 1, Len(c) - 1) ELSE c

IsRoot(p) == Resolve(p) = <<SLASH>>

\* os.path.exists / os.path.isdir on a tree that holds directories only
IsDir(dirs, p) == IsRoot(p) \/ Resolve(p) \in dirs

\* the directory that must exist for mkdir(p) to succeed
Parent(p) == PathSplit(Resolve(p)).head

(***************************************************************************)
(* Values computed by the function body.                                   *)
(***************************************************************************)
\* mutant: the run name is left out of the directory name
RunDirWithoutName(run_name, ts) == PathJoin(RUNS, ts)

\* run_dir = os.path.join('runs', f'{run_name}_{timestamp}')
RunDirOf(run_name, ts) == PathJoin(RUNS, run_name \o <<"_">> \o ts)

\* mutant: line 19 names the logs directory, as line 20 does
CheckpointsDirAsLogs(rd) == PathJoin(rd, LOGS)

\* os.path.join(run_dir, 'checkpoints') and os.path.join(run_dir, 'logs')
CheckpointsDirOf(rd) == PathJoin(rd, CHECKPOINTS)
\* mutant: the logs directory is placed beside the run directories
LogsDirOutsideRun(rd) == PathJoin(RUNS, LOGS)

LogsDirOf(rd) == PathJoin(rd, LOGS)

\* mutant: the checkpoint file name carries a second reading of the clock
CheckpointPathRereadsClock(rd) ==
    PathJoin(PathJoin(rd, CHECKPOINTS), Strftime(now) \o BEST_MODEL)

\* checkpoint_path = os.path.join(run_dir, 'checkpoints', 'best_model.keras')
CheckpointPathOf(rd) == PathJoin(PathJoin(rd, CHECKPOINTS), BEST_MODEL)

\* mutant: the CSV file is placed in the checkpoints directory
CsvPathInCheckpoints(rd, run_name) ==
    PathJoin(PathJoin(rd, CHECKPOINTS), run_name \o TRAINING_LOG_SUFFIX)

\* csv_path = os.path.join(run_dir, f'{run_name}_training_log.csv')
CsvPathOf(rd, run_name) == PathJoin(rd, run_name \o TRAINING_LOG_SUFFIX)

\* mutant: the keywords are searched in monitor, not in monitor.lower()
ModeCaseSensitive(monitor) ==
    IF \E i \in 1..Len(Keywords) : Contains(Keywords[i], monitor)
    THEN "max" ELSE "min"

\* mode: 'max' if any keyword occurs in monitor.lower(), else 'min'
ModeOf(monitor) ==
    IF \E i \in 1..Len(Keywords) : Contains(Keywords[i], Lower(monitor))
    THEN "max" ELSE "min"

ModelCheckpoint(filepath, monitor, mode) ==
    [kind |-> "ModelCheckpoint", filepath |-> filepath, monitor |-> monitor,
     mode |-> mode, save_best_only |-> TRUE, save_weights_only |-> FALSE,
     verbose |-> 1]

\* mutant: early stopping takes the fixed patience of the LR reduction
EarlyStoppingFixedPatience(monitor, patience, mode) ==
    [kind |-> "EarlyStopping", monitor |-> monitor,
     patience |-> ReduceLRPatience, mode |-> mode,
     restore_best_weights |-> TRUE, verbose |-> 1]

EarlyStopping(monitor, patience, mode) ==
    [kind |-> "EarlyStopping", monitor |-> monitor, patience |-> patience,
     mode |-> mode, restore_best_weights |-> TRUE, verbose |-> 1]

ReduceLROnPlateau(monitor, mode) ==
    [kind |-> "ReduceLROnPlateau", monitor |-> monitor, factor |-> "0.5",
     patience |-> ReduceLRPatience, min_lr |-> "1e-6", mode |-> mode,
     verbose |-> 1]

TensorBoard(log_dir) ==
    [kind |-> "TensorBoard", log_dir |-> log_dir, histogram_freq |-> 1,
     write_graph |-> TRUE, update_freq |-> "epoch"]

CSVLogger(filename) ==
    [kind |-> "CSVLogger", filename |-> filename, append |-> FALSE,
     separator |-> ","]

\* mutant: the list is returned in the order of construction
ReturnListAsConstructed(checkpoint, early_stop, reduce_lr, tensorboard, csv_logger) ==
    <<checkpoint, early_stop, reduce_lr, tensorboard, csv_logger>>

\* return [checkpoint, reduce_lr, early_stop, tensorboard, csv_logger]
ReturnList(checkpoint, early_stop, reduce_lr, tensorboard, csv_logger) ==
    <<checkpoint, reduce_lr, early_stop, tensorboard, csv_logger>>

\* lines 22-69 and 75: the five observers of one call
Observers(run_name, monitor, patience, rd) ==
    LET mode == ModeOf(monitor)
    IN  ReturnList(ModelCheckpoint(CheckpointPathOf(rd), monitor, mode),
                   EarlyStopping(monitor, patience, mode),
                   ReduceLROnPlateau(monitor, mode),
                   TensorBoard(LogsDirOf(rd)),
                   CSVLogger(CsvPathOf(rd, run_name)))

\* the three print calls
StatusLines(run_name, rd) ==
    << <<"[CALLBACKS] Initialized for run: ", run_name>>,
       <<"  -> Logs: ", LogsDirOf(rd)>>,
       <<"  -> Checkpoints: ", CheckpointPathOf(rd)>> >>

(***************************************************************************)
(* os.makedirs(name, exist_ok=True), unfolded.                             *)
(***************************************************************************)
\* mutant: makedirs is called without exist_ok=True
ExistOkOmitted == FALSE

ExistOk == TRUE

\* the mkdir system call; denied: the kernel refuses to create the entry
MkdirSyscall(dirs, name, denied) ==
    IF IsDir(dirs, name) THEN [errno |-> "EEXIST", dirs |-> dirs]
    ELSE IF Parent(name) # EMPTY /\ ~IsDir(dirs, Parent(name))
         THEN [errno |-> "ENOENT", dirs |-> dirs]
    ELSE IF denied THEN [errno |-> "EACCES", dirs |-> dirs]
    ELSE [errno |-> "OK", dirs |-> dirs \cup {Resolve(name)}]

\* head and tail as makedirs takes them: split again when the tail is empty
MakedirsSplit(name) ==
    LET sp == PathSplit(name)
    IN  IF sp.tail = EMPTY THEN PathSplit(sp.head) ELSE sp

\* whether makedirs first recurses on the head of name
MakedirsRecurses(dirs, name) ==
    LET sp == MakedirsSplit(name)
    IN  sp.head # EMPTY /\ sp.tail # EMPTY /\ ~IsDir(dirs, sp.head)

\* whether the OSError of mkdir(name) is swallowed: by the frame's own handler
\* (exist_ok and the directory is there), or, for a FileExistsError leaving a
\* recursive call, by the caller's "except FileExistsError: pass"
MkdirErrorSwallowed(dirs, name, errno, depth) ==
    \/ ExistOk /\ IsDir(dirs, name)
    \/ errno = "EEXIST" /\ depth > 1

(***************************************************************************)
(* Callers.                                                                *)
(***************************************************************************)
Procs == {1, 2}

NoArgs == [run_name |-> EMPTY, monitor |-> EMPTY, patience |-> 0]
NoError == [type |-> "none", errno |-> "OK", name |-> EMPTY, stage |-> "none"]

\* mutant: the OSError is caught and the body goes on to build the observers
OnErrorCarryOn == "build"

\* the program counter after an uncaught OSError
OnUncaughtError == "raised"

\* directories a run of name "a" started at StartTime works in
SeedRunDir == RunDirOf(<<"a">>, Strftime(StartTime))
SeedTree ==
    <<Resolve(RUNS), Resolve(SeedRunDir), Resolve(CheckpointsDirOf(SeedRunDir)),
      Resolve(LogsDirOf(SeedRunDir))>>

\* filesystem states the first call may find
InitialTrees ==
    { {}, {SeedTree[1]}, {SeedTree[1], SeedTree[2]},
      {SeedTree[1], SeedTree[2], SeedTree[3]},
      {SeedTree[1], SeedTree[2], SeedTree[4]},
      {SeedTree[1], SeedTree[2], SeedTree[3], SeedTree[4]} }

Init ==
    /\ now = StartTime
    /\ fs \in InitialTrees
    /\ pc = [p \in Procs |-> "idle"]
    /\ args = [p \in Procs |-> NoArgs]
    /\ timestamp = [p \in Procs |-> EMPTY]
    /\ run_dir = [p \in Procs |-> EMPTY]
    /\ stack = [p \in Procs |-> << >>]
    /\ phase = [p \in Procs |-> "none"]
    /\ made = [p \in Procs |-> {}]
    /\ err = [p \in Procs |-> NoError]
    /\ result = [p \in Procs |-> << >>]
    /\ out = [p \in Procs |-> << >>]

\* the wall clock advances by one second
Tick ==
    /\ now < StartTime + MaxTicks
    /\ now' = now + 1
    /\ UNCHANGED <<fs, pc, args, timestamp, run_dir, stack, phase, made, err,
                   result, out>>

\* lines 5, 17-19: the call binds its arguments, reads the clock, computes
\* run_dir and enters os.makedirs(os.path.join(run_dir, 'checkpoints'))
Call(p, names, monitors, patiences) ==
    /\ pc[p] = "idle"
    /\ \E n \in names, m \in monitors, k \in patiences :
         LET ts == Strftime(now)
             rd == RunDirOf(n, ts)
         IN  /\ args' = [args EXCEPT ![p] =
                           [run_name |-> n, monitor |-> m, patience |-> k]]
             /\ timestamp' = [timestamp EXCEPT ![p] = ts]
             /\ run_dir' = [run_dir EXCEPT ![p] = rd]
             /\ stack' = [stack EXCEPT ![p] = <<CheckpointsDirOf(rd)>>]
    /\ pc' = [pc EXCEPT ![p] = "mk_checkpoints"]
    /\ phase' = [phase EXCEPT ![p] = "check"]
    /\ UNCHANGED <<now, fs, made, err, result, out>>

InMakedirs(p) == pc[p] \in {"mk_checkpoints", "mk_logs"}

Top(p) == stack[p][Len(stack[p])]

\* makedirs: split name, test path.exists(head); recurse on head when absent
MakedirsCheck(p) ==
    /\ InMakedirs(p)
    /\ phase[p] = "check"
    /\ IF MakedirsRecurses(fs, Top(p))
       THEN /\ stack' = [stack EXCEPT ![p] =
                           Append(@, MakedirsSplit(Top(p)).head)]
            /\ UNCHANGED phase
       ELSE /\ phase' = [phase EXCEPT ![p] = "mkdir"]
            /\ UNCHANGED stack
    /\ UNCHANGED <<now, fs, pc, args, timestamp, run_dir, made, err, result,
                   out>>

\* makedirs: mkdir(name) of the innermost frame and its except clause; a frame
\* that returns hands over to its caller's mkdir, the outermost one to the
\* next statement of standard_callbacks (line 20, then line 22)
MakedirsMkdir(p) ==
    /\ InMakedirs(p)
    /\ phase[p] = "mkdir"
    /\ \E denied \in BOOLEAN :
         LET name  == Top(p)
             depth == Len(stack[p])
             r     == MkdirSyscall(fs, name, denied)
             rest  == SubSeq(stack[p], 1, depth - 1)
         IN  /\ fs' = r.dirs
             /\ made' = [made EXCEPT ![p] = @ \cup (r.dirs \ fs)]
             /\ IF r.errno = "OK"
                   \/ MkdirErrorSwallowed(r.dirs, name, r.errno, depth)
                THEN /\ err' = err
                     /\ IF rest # << >>
                        THEN /\ stack' = [stack EXCEPT ![p] = rest]
                             /\ UNCHANGED <<pc, phase>>
                        ELSE IF pc[p] = "mk_checkpoints"
                        THEN /\ stack' = [stack EXCEPT ![p] =
                                            <<LogsDirOf(run_dir[p])>>]
                             /\ pc' = [pc EXCEPT ![p] = "mk_logs"]
                             /\ phase' = [phase EXCEPT ![p] = "check"]
                        ELSE /\ stack' = [stack EXCEPT ![p] = << >>]
                             /\ pc' = [pc EXCEPT ![p] = "build"]
                             /\ phase' = [phase EXCEPT ![p] = "none"]
                ELSE /\ err' = [err EXCEPT ![p] =
                                  [type |-> "OSError", errno |-> r.errno,
                                   name |-> name,
                                   stage |-> pc[p]]]
                     /\ stack' = [stack EXCEPT ![p] = << >>]
                     /\ pc' = [pc EXCEPT ![p] = OnUncaughtError]
                     /\ phase' = [phase EXCEPT ![p] = "none"]
    /\ UNCHANGED <<now, args, timestamp, run_dir, result, out>>

\* lines 22-75: derive the paths and the mode, construct the five observers,
\* print the status lines, return the list
Build(p) ==
    /\ pc[p] = "build"
    /\ result' = [result EXCEPT ![p] =
                    Observers(args[p].run_name, args[p].monitor,
                              args[p].patience, run_dir[p])]
    /\ out' = [out EXCEPT ![p] = StatusLines(args[p].run_name, run_dir[p])]
    /\ pc' = [pc EXCEPT ![p] = "returned"]
    /\ UNCHANGED <<now, fs, args, timestamp, run_dir, stack, phase, made, err>>

Step(p, names, monitors, patiences) ==
    \/ Call(p, names, monitors, patiences)
    \/ MakedirsCheck(p)
    \/ MakedirsMkdir(p)
    \/ Build(p)

(***************************************************************************)
(* Spec: one caller, every drawn argument.                                 *)
(* PairSpec: two callers whose steps interleave, fewer arguments.          *)
(***************************************************************************)
Next == Tick \/ Step(1, RunNames, Monitors, Patiences)

Spec == Init /\ [][Next]_vars

PairNames == {<<"a">>, <<SLASH>>}
PairMonitors == {DefaultMonitor, <<"v","a","l","_","a","c","c","u","r","a","c","y">>}
PairPatiences == {DefaultPatience}

PairNext ==
    Tick \/ \E p \in Procs : Step(p, PairNames, PairMonitors, PairPatiences)

PairSpec == Init /\ [][PairNext]_vars

(***************************************************************************)
(* Vocabulary of the properties.  Expected paths are spelled out by plain  *)
(* concatenation, not through PathJoin.                                    *)
(***************************************************************************)
Returned(p) == pc[p] = "returned"
Raised(p) == pc[p] = "raised"
Called(p) == pc[p] # "idle"

\* the observer of the given kind in the list a call returned
ObserverOf(p, kind) ==
    result[p][CHOOSE i \in 1..Len(result[p]) : result[p][i].kind = kind]

HasObserver(p, kind) == \E i \in 1..Len(result[p]) : result[p][i].kind = kind

ExpectedRunDir(n, ts) == <<"r","u","n","s","/">> \o n \o <<"_">> \o ts
ExpectedCheckpointsDir(n, ts) == ExpectedRunDir(n, ts) \o <<"/","c","h","e","c","k","p","o","i","n","t","s">>
ExpectedLogsDir(n, ts) == ExpectedRunDir(n, ts) \o <<"/","l","o","g","s">>
ExpectedCheckpointPath(n, ts) ==
    ExpectedRunDir(n, ts) \o <<"/","c","h","e","c","k","p","o","i","n","t","s","/","b","e","s","t","_","m","o","d","e","l",".","k","e","r","a","s">>
ExpectedCsvPath(n, ts) ==
    ExpectedRunDir(n, ts) \o <<SLASH>> \o n \o <<"_","t","r","a","i","n","i","n","g","_","l","o","g",".","c","s","v">>

\* c is the letter d in either case (d is lower case)
SameLetter(c, d) ==
    c = d \/ \E i \in 1..Len(LowerCase) : LowerCase[i] = d /\ UpperCase[i] = c

\* k occurs in s at some offset, letters compared without regard to case
Mentions(s, k) ==
    \E off \in 0..(Len(s) - Len(k)) :
        \A j \in 1..Len(k) : SameLetter(s[off + j], k[j])

ExpectedMode(m) ==
    IF \/ Mentions(m, <<"a","c","c">>) \/ Mentions(m, <<"a","u","c">>)
       \/ Mentions(m, <<"p","r","e","c","i","s","i","o","n">>) \/ Mentions(m, <<"r","e","c","a","l","l">>)
    THEN "max" ELSE "min"

\* the timestamps the clock can produce within the bounds
Timestamps == {Strftime(t) : t \in StartTime..(StartTime + MaxTicks)}

C1_Order ==
    <<"ModelCheckpoint", "ReduceLROnPlateau", "EarlyStopping", "TensorBoard",
      "CSVLogger">>

(***************************************************************************)
(* C1: a call that completes returns exactly five observers, one of each   *)
(* kind, in the order ModelCheckpoint, ReduceLROnPlateau, EarlyStopping,   *)
(* TensorBoard, CSVLogger, whatever the arguments.                         *)
(***************************************************************************)
C1_FixedOrder ==
    \A p \in Procs :
        Returned(p) =>
            /\ Len(result[p]) = 5
            /\ \A i \in 1..5 : result[p][i].kind = C1_Order[i]

C1_Witness ==
    /\ Returned(1)
    /\ args[1].run_name # DefaultRunName
    /\ args[1].monitor = <<"v","a","l","_","a","c","c","u","r","a","c","y">>
    /\ args[1].patience = 0

(***************************************************************************)
(* C2: ModelCheckpoint, ReduceLROnPlateau and EarlyStopping carry the      *)
(* monitor unchanged and one common mode: max when the monitor mentions    *)
(* acc, auc, precision or recall in any letter case, min otherwise (the    *)
(* empty monitor included).                                                *)
(***************************************************************************)
C2_Direction ==
    \A p \in Procs :
        Returned(p) =>
            \A kind \in {"ModelCheckpoint", "ReduceLROnPlateau", "EarlyStopping"} :
                /\ HasObserver(p, kind)
                /\ ObserverOf(p, kind).monitor = args[p].monitor
                /\ ObserverOf(p, kind).mode = ExpectedMode(args[p].monitor)

C2_Witness ==
    /\ Returned(1)
    /\ args[1].monitor = <<"v","a","l","_","R","e","C","a","l","l">>
    /\ ObserverOf(1, "EarlyStopping").mode = "max"

(***************************************************************************)
(* C3: ReduceLROnPlateau has patience 3 and EarlyStopping has the patience *)
(* argument, whatever that argument is.                                    *)
(***************************************************************************)
C3_Patience ==
    \A p \in Procs :
        Returned(p) =>
            /\ HasObserver(p, "ReduceLROnPlateau")
            /\ HasObserver(p, "EarlyStopping")
            /\ ObserverOf(p, "ReduceLROnPlateau").patience = 3
            /\ ObserverOf(p, "EarlyStopping").patience = args[p].patience

C3_Witness ==
    /\ Returned(1)
    /\ args[1].patience = DefaultPatience
    /\ ObserverOf(1, "ReduceLROnPlateau").patience # args[1].patience

(***************************************************************************)
(* C4, as claimed: a completed call with a valid run_name has created no   *)
(* directory besides run_dir/checkpoints and run_dir/logs, and both exist. *)
(***************************************************************************)
C4_OnlyTwoCreated ==
    \A p \in Procs :
        (Returned(p) /\ ValidRunName(args[p].run_name)) =>
            LET n  == args[p].run_name
                ts == timestamp[p]
            IN  /\ ExpectedCheckpointsDir(n, ts) \in fs
                /\ ExpectedLogsDir(n, ts) \in fs
                /\ made[p] \subseteq
                     {ExpectedCheckpointsDir(n, ts), ExpectedLogsDir(n, ts)}

(***************************************************************************)
(* C4, amended: a completed call with a valid run_name has created         *)
(* run_dir/checkpoints and run_dir/logs and those of their ancestors runs  *)
(* and run_dir that were missing, and nothing else; on return all four     *)
(* exist.                                                                  *)
(***************************************************************************)
C4_CreatedWithAncestors ==
    \A p \in Procs :
        (Returned(p) /\ ValidRunName(args[p].run_name)) =>
            LET n    == args[p].run_name
                ts   == timestamp[p]
                tree == {<<"r","u","n","s">>, ExpectedRunDir(n, ts),
                         ExpectedCheckpointsDir(n, ts), ExpectedLogsDir(n, ts)}
            IN  /\ tree \subseteq fs
                /\ made[p] \subseteq tree

C4_Witness ==
    /\ Returned(1)
    /\ ValidRunName(args[1].run_name)
    /\ Cardinality(made[1]) = 4

C5_State ==
    \A p \in Procs :
        /\ err[p].type # "none" =>
              /\ Raised(p)
              /\ err[p].type = "OSError"
              /\ result[p] = << >>
              /\ out[p] = << >>
        /\ Raised(p) => err[p].type # "none"
        /\ Returned(p) => Len(result[p]) = 5 /\ err[p].type = "none"
        /\ ~(Returned(p) \/ Raised(p)) => result[p] = << >> /\ out[p] = << >>

C5_NoRetry ==
    \A p \in Procs :
        Raised(p) =>
            /\ pc'[p] = pc[p]
            /\ made'[p] = made[p]
            /\ err'[p] = err[p]
            /\ stack'[p] = << >>

(***************************************************************************)
(* C5: a call either returns the full list or aborts with the OSError of   *)
(* the failed mkdir: once an error is raised the call has no result, has   *)
(* printed nothing, and takes no further step (no retry, no further        *)
(* directory).                                                             *)
(***************************************************************************)
C5_AllOrNothing == [](C5_State) /\ [][C5_NoRetry]_vars

C5_Witness ==
    /\ Raised(1)
    /\ err[1].errno = "EACCES"
    /\ made[1] # {}

SameRun(p, q) ==
    /\ p # q
    /\ Called(p) /\ Called(q)
    /\ args[p].run_name = args[q].run_name
    /\ timestamp[p] = timestamp[q]

(***************************************************************************)
(* C6: two calls with the same run_name in the same second never fail      *)
(* because of each other, however their makedirs steps interleave: the     *)
(* only error either can raise is a refusal by the kernel; each directory  *)
(* is created by exactly one of them; and when both have returned, both    *)
(* lists have five observers bound to the same run_dir, checkpoint path,   *)
(* log directory and CSV path, and the directories exist.                  *)
(***************************************************************************)
C6_BenignRace ==
    \A p, q \in Procs :
        SameRun(p, q) =>
            /\ err[p].errno \in {"OK", "EACCES"}
            /\ made[p] \cap made[q] = {}
            /\ (Returned(p) /\ Returned(q)) =>
                  /\ Len(result[p]) = 5 /\ Len(result[q]) = 5
                  /\ run_dir[p] = run_dir[q]
                  /\ ObserverOf(p, "ModelCheckpoint").filepath
                       = ObserverOf(q, "ModelCheckpoint").filepath
                  /\ ObserverOf(p, "TensorBoard").log_dir
                       = ObserverOf(q, "TensorBoard").log_dir
                  /\ ObserverOf(p, "CSVLogger").filename
                       = ObserverOf(q, "CSVLogger").filename
                  /\ IsDir(fs, CheckpointsDirOf(run_dir[p]))
                  /\ IsDir(fs, ObserverOf(p, "TensorBoard").log_dir)

\* both returned, and each of the two created part of the shared tree
C6_Witness ==
    /\ SameRun(1, 2)
    /\ Returned(1) /\ Returned(2)
    /\ made[1] # {} /\ made[2] # {}

(***************************************************************************)
(* C7: calls with different run_name have different run_dir, whether or    *)
(* not their timestamps are equal, and so different checkpoint paths, log  *)
(* directories and CSV paths; for valid run_names the run_dirs are also    *)
(* different directories once resolved.                                    *)
(***************************************************************************)
C7_DistinctRunDirs ==
    /\ \A p, q \in Procs :
         (Called(p) /\ Called(q) /\ args[p].run_name # args[q].run_name) =>
            /\ run_dir[p] # run_dir[q]
            /\ (ValidRunName(args[p].run_name) /\ ValidRunName(args[q].run_name))
                  => Resolve(run_dir[p]) # Resolve(run_dir[q])
            /\ (Returned(p) /\ Returned(q)) =>
                  /\ ObserverOf(p, "ModelCheckpoint").filepath
                       # ObserverOf(q, "ModelCheckpoint").filepath
                  /\ ObserverOf(p, "TensorBoard").log_dir
                       # ObserverOf(q, "TensorBoard").log_dir
                  /\ ObserverOf(p, "CSVLogger").filename
                       # ObserverOf(q, "CSVLogger").filename
    /\ (\A p \in Procs : ~Called(p)) =>
       \A n1, n2 \in RunNames, t1, t2 \in Timestamps :
         n1 # n2 =>
            /\ RunDirOf(n1, t1) # RunDirOf(n2, t2)
            /\ CheckpointPathOf(RunDirOf(n1, t1)) # CheckpointPathOf(RunDirOf(n2, t2))
            /\ LogsDirOf(RunDirOf(n1, t1)) # LogsDirOf(RunDirOf(n2, t2))
            /\ CsvPathOf(RunDirOf(n1, t1), n1) # CsvPathOf(RunDirOf(n2, t2), n2)

C7_Witness ==
    /\ Returned(1) /\ Returned(2)
    /\ args[1].run_name # args[2].run_name
    /\ timestamp[1] = timestamp[2]

C8_PathsFor(p) ==
    LET n  == args[p].run_name
        ts == timestamp[p]
        csv == ObserverOf(p, "CSVLogger")
    IN  /\ ts \in Timestamps
        /\ run_dir[p] = ExpectedRunDir(n, ts)
        /\ csv.filename = ExpectedCsvPath(n, ts)
        /\ PathSplit(csv.filename).head = run_dir[p]
        /\ csv.append = FALSE
        /\ csv.separator = ","
        /\ ObserverOf(p, "ModelCheckpoint").filepath = ExpectedCheckpointPath(n, ts)
        /\ ObserverOf(p, "TensorBoard").log_dir = ExpectedLogsDir(n, ts)

(***************************************************************************)
(* C8, as claimed: for every run_name the CSVLogger writes                 *)
(* runs/<run_name>_<timestamp>/<run_name>_training_log.csv, a file         *)
(* directly inside run_dir, without appending and with a comma; the        *)
(* checkpoint is run_dir/checkpoints/best_model.keras and the TensorBoard  *)
(* directory run_dir/logs, all from the timestamp the call read.           *)
(***************************************************************************)
C8_PathsForEveryName == \A p \in Procs : Returned(p) => C8_PathsFor(p)

(***************************************************************************)
(* C8, amended: the same, for every run_name that contains no path         *)
(* separator.                                                              *)
(***************************************************************************)
C8_PathsForSegmentNames ==
    \A p \in Procs :
        (Returned(p) /\ ValidRunName(args[p].run_name)) => C8_PathsFor(p)

C8_Witness ==
    /\ Returned(1)
    /\ args[1].run_name = <<"a">>
    /\ timestamp[1] = Strftime(StartTime + 1)

\* the resolved non-empty proper prefixes of path that end before a separator
Ancestors(path) ==
    {Resolve(SubSeq(path, 1, i - 1)) :
        i \in {j \in 2..Len(path) : path[j] = SLASH /\ path[j - 1] # SLASH}}

TreeOf(rd) ==
    Ancestors(rd \o <<"/","c","h","e","c","k","p","o","i","n","t","s">>) \cup {Resolve(rd \o <<"/","c","h","e","c","k","p","o","i","n","t","s">>)}
        \cup {Resolve(rd \o <<"/","l","o","g","s">>)}

(***************************************************************************)
(* C9: two calls with equal run_name, monitor and patience that read the   *)
(* same timestamp return equal lists and print equal lines, and leave the  *)
(* same directories: the tree of the run exists, and nothing outside it    *)
(* was created by either, whichever part of it existed before.             *)
(***************************************************************************)
C9_Deterministic ==
    \A p, q \in Procs :
        (p # q /\ Returned(p) /\ Returned(q) /\ args[p] = args[q]
               /\ timestamp[p] = timestamp[q]) =>
            /\ result[p] = result[q]
            /\ out[p] = out[q]
            /\ TreeOf(run_dir[p]) \subseteq fs
            /\ (made[p] \cup made[q]) \subseteq TreeOf(run_dir[p])

\* the two calls ran in different seconds of the clock yet read the same one
C9_Witness ==
    /\ Returned(1) /\ Returned(2)
    /\ args[1] = args[2]
    /\ timestamp[1] = timestamp[2]
    /\ now # StartTime
    /\ timestamp[1] = Strftime(StartTime)

C10_Sequential ==
    \A p \in Procs :
        LET ck == Resolve(run_dir[p] \o <<"/","c","h","e","c","k","p","o","i","n","t","s">>)
            lg == Resolve(run_dir[p] \o <<"/","l","o","g","s">>)
        IN  /\ pc[p] = "mk_checkpoints" => lg \notin made[p]
            /\ pc[p] = "mk_logs" => ck \in fs
            /\ lg \in made[p] => ck \in fs
            /\ Raised(p) => made[p] \subseteq fs
            /\ (Raised(p) /\ err[p].stage = "mk_logs") =>
                  /\ IsDir(fs, run_dir[p])
                  /\ ck \in fs
                  /\ lg \notin made[p]
            /\ (Raised(p) /\ err[p].stage = "mk_checkpoints") =>
                  /\ ck \notin made[p]
                  /\ lg \notin made[p]

(***************************************************************************)
(* C10, as claimed: checkpoints is made before logs and nothing is rolled  *)
(* back, so a call that fails making logs leaves run_dir and               *)
(* run_dir/checkpoints in place; and a failed call has left the            *)
(* filesystem unchanged only if it failed in the first makedirs.           *)
(***************************************************************************)
C10_UnchangedOnlyIfFirstFails ==
    /\ C10_Sequential
    /\ \A p \in Procs :
         (Raised(p) /\ made[p] = {}) => err[p].stage = "mk_checkpoints"

(***************************************************************************)
(* C10, amended: checkpoints is made before logs and nothing is rolled     *)
(* back, so a call that fails making logs leaves run_dir and               *)
(* run_dir/checkpoints in place; a failed call has left the filesystem     *)
(* unchanged only if it failed before making any directory, which for a    *)
(* failure in the second makedirs means run_dir/checkpoints existed        *)
(* before the call.                                                        *)
(***************************************************************************)
C10_NoRollback ==
    /\ C10_Sequential
    /\ \A p \in Procs :
         (Raised(p) /\ made[p] = {} /\ err[p].stage = "mk_logs") =>
            /\ Resolve(run_dir[p] \o <<"/","c","h","e","c","k","p","o","i","n","t","s">>) \in fs
            /\ Resolve(run_dir[p] \o <<"/","c","h","e","c","k","p","o","i","n","t","s">>) \in UNION InitialTrees

\* logs is refused after this call has made checkpoints
C10_Witness ==
    /\ Raised(1)
    /\ err[1].stage = "mk_logs"
    /\ Resolve(run_dir[1] \o <<"/","c","h","e","c","k","p","o","i","n","t","s">>) \in made[1]

====
